---- MODULE Spec2Model ----
(***************************************************************************)
(* Model of the LINE <-> Claude Code bridge.  Two variants of the bot      *)
(* exist in the repository: src/src/index.ts runs the agent as a local     *)
(* subprocess (variant "sub"), src/unnamed/part_000 talks to a remote      *)
(* session server over HTTP (variant "rem").  Both share enqueueForUser,   *)
(* chunkText, sendMessage and the command router.                          *)
(*                                                                         *)
(* One step of the model is one run-to-completion turn of the event loop:  *)
(* the code between two awaits of one handler.                             *)
(***************************************************************************)
EXTENDS Integers, Sequences, FiniteSets, TLC

\* ------------------------------------------------------------------ bounds
\* prompts (or abstract operations) enqueued per user
MaxOps == 2
\* cap on the send attempts of one prompt that the model follows
MaxAttempts == 3
Users == {"u1", "u2"}

\* the users who write to the bot in Spec; both users enqueue in SpecQueue
Chatting == {"u1"}

VARIABLES
    variant,          \* "sub": src/src/index.ts, "rem": src/unnamed/part_000
    sessions,         \* Map<userId, UserSession>, NoSession when absent
    activeProcesses,  \* Map<userId, proc>: index of the operation whose process it is, 0 when absent
    userQueues,       \* per user, the chain of operations enqueued so far
    newH,             \* "rem": the /new handler awaiting DELETE
    abortH,           \* "rem": the /abort handler awaiting POST .../abort
    reply,            \* the replyMessage sent by the step just taken
    cleared           \* history: /new was handled and no operation has started since;
                      \* stale is the newest session id the user had obtained by then

\* the outbound side: one call of sendMessage and of the chunkText it makes,
\* and one response text built by the prompt operation
VARIABLES
    msgText,          \* chunkText: the parameter `text`, a sequence of characters
    limit,            \* chunkText: the parameter limit
    remaining,        \* chunkText: the local `remaining`
    chunks,           \* chunkText: the local `chunks`, then the chunks sendMessage iterates over
    spc,              \* where the call is: "idle", "call", "loop", "return", "push", "done"
    pushes,           \* sendMessage: the chunks pushed so far and how each pushMessage ended
    response          \* the outcome of the backend call and the length of the response text

sendVars == <<msgText, limit, remaining, chunks, spc, pushes, response>>

vars == <<variant, sessions, activeProcesses, userQueues, newH, abortH, reply, cleared, sendVars>>

NoSession == [sessionId |-> 0, totalCost |-> 0, present |-> FALSE]
Session(id, cost) == [sessionId |-> id, totalCost |-> cost, present |-> TRUE]

NoReply == [user |-> "", kind |-> "none"]
Reply(u, k) == [user |-> u, kind |-> k]

\* the handler is not awaiting anything
Idle == [busy |-> FALSE, sessionId |-> 0]
Awaiting(id) == [busy |-> TRUE, sessionId |-> id]

\* ------------------------------------------------------------ the user queue
(***************************************************************************)
(* userQueues.get(u) is the promise next.then(()=>{}, ()=>{}) of the last  *)
(* enqueueForUser call.  The model keeps the whole chain: one record per   *)
(* call, with the state of `next` (res) and of the stored promise (tail).  *)
(*   pc       where the operation is: "wait" (fn not called yet), "fn" (an *)
(*            abstract fn running), "proc", "create", "send" (a backend    *)
(*            call awaited), "push" (sendMessage awaited), "done"          *)
(*   sess     the session runClaude / sendPrompt read on entry             *)
(*   isRetry  runClaude's parameter                                        *)
(*   call     the backend call: "none", "running", "killed"                *)
(*   out      the text handed to sendMessage: "none", "ok" (the result),   *)
(*            "error" (an "Error: ..." message)                            *)
(* attempt, cancelled and cost0 are history variables: the send attempts   *)
(* made so far, whether /abort cancelled the operation, and the user's     *)
(* totalCost when the operation started.                                   *)
(***************************************************************************)
NewOp(kind) ==
    [kind |-> kind, pc |-> "wait", res |-> "pending", tail |-> "pending",
     sess |-> NoSession, isRetry |-> FALSE, call |-> "none", out |-> "none",
     attempt |-> 0, cancelled |-> FALSE, cost0 |-> 0]

\* next.then(() => {}, () => {}): both handlers return undefined
ChainSettle_Unswallowed(res) == res

ChainSettle(res) == "fulfilled"

\* prev.then(fn, fn): fn is called when prev is fulfilled and when it is rejected
ThenRuns_Eager(prev) == TRUE

ThenRuns(prev) == prev \in {"fulfilled", "rejected"}

\* userQueues.get(userId) ?? Promise.resolve(), as seen by the k-th call
PrevState_Unchained(u, k) == "fulfilled"

\* one chain for all users: a call waits for every operation still running
PrevState_Shared(u, k) ==
    IF \E v \in Users \ {u} : \E j \in DOMAIN userQueues[v] :
           userQueues[v][j].pc # "wait" /\ userQueues[v][j].res = "pending"
       THEN "pending"
       ELSE IF k = 1 THEN "fulfilled" ELSE userQueues[u][k - 1].tail

PrevState(u, k) == IF k = 1 THEN "fulfilled" ELSE userQueues[u][k - 1].tail

\* enqueueForUser(userId, fn)
enqueueForUser(u, kind) ==
    userQueues' = [userQueues EXCEPT ![u] = Append(@, NewOp(kind))]

\* the operation's promise settles and the stored promise follows it; the
\* locals of the returned call are gone
Settle(op, res) ==
    [op EXCEPT !.pc = "done", !.res = res, !.tail = ChainSettle(res), !.call = "none",
               !.sess = NoSession, !.isRetry = FALSE, !.out = "none", !.attempt = 0,
               !.cost0 = 0]

OpIndex(u) == 1..Len(userQueues[u])

Started(op) == op.pc # "wait"
Settled(op) == op.res # "pending"
Running(op) == Started(op) /\ ~Settled(op)
\* a backend call made by prompt forwarding is awaited
InFlight(op) == op.pc \in {"proc", "create", "send"}


SetOp(u, k, op) == [userQueues EXCEPT ![u][k] = op]

\* the id of the conversation the backend creates for the a-th attempt of the
\* k-th operation of a user: ids are opaque, only their distinctness matters
FreshId(k, a) == (k - 1) * (MaxAttempts + 1) + a

\* total_cost_usd / cost_usd of one prompt, in integer cost units
Costs == {0, 1}

Max(S) == CHOOSE x \in S : \A y \in S : y <= x

\* history: session ids grow with time, the newest one the user holds in the
\* store or in a running call is the mark of what was obtained so far
NotCleared == [on |-> FALSE, stale |-> 0]
Cleared(u) ==
    [on |-> TRUE,
     stale |-> Max({sessions[u].sessionId} \cup
                   {userQueues[u][k].sess.sessionId : k \in OpIndex(u)})]

\* ------------------------------------------------- subprocess variant: runClaude
\* what the process wrote to stdout when it exited:
\*   "ok"       JSON.parse succeeds: session_id present or not, total_cost_usd, is_error
\*   "expired"  not JSON, contains "No conversation found" or "not found"
\*   "garbage"  not JSON without the marker, or reading the output throws
ProcOutcomes ==
    [type : {"ok"}, hasId : BOOLEAN, cost : Costs, isError : BOOLEAN]
    \cup {[type |-> t, hasId |-> FALSE, cost |-> 0, isError |-> TRUE] : t \in {"expired", "garbage"}}

\* session?.sessionId is truthy: args.push("--resume", session.sessionId)
Resumes(sess) == sess.present /\ sess.sessionId # 0

\* the retry condition of the catch around JSON.parse; marker: stdout includes
\* "No conversation found" or "not found"
MayRetry_Always(isRetry, sess, marker) == Resumes(sess) /\ marker

MayRetry_AnyFailure(isRetry, sess, marker) == ~isRetry /\ Resumes(sess)

MayRetry(isRetry, sess, marker) == ~isRetry /\ Resumes(sess) /\ marker

\* runClaude(userId, prompt, isRetry) up to its first await, called by the
\* k-th operation when the session map is sess
runClaude(u, k, isRetry, sess) ==
    /\ sessions' = sess
    /\ activeProcesses' = [activeProcesses EXCEPT ![u] = k]
    /\ userQueues' = SetOp(u, k, [userQueues[u][k] EXCEPT
            !.pc = "proc", !.sess = sess[u], !.isRetry = isRetry, !.call = "running",
            !.attempt = @ + 1,
            !.cost0 = IF isRetry THEN @ ELSE sess[u].totalCost])

\* the cost of a prompt joins the accumulated total:
\* (session?.totalCost ?? 0) + cost, s.totalCost += cost
AddCost_Replace(total, cost) == cost

AddCost(total, cost) == total + cost

\* the entry runClaude stores after a parsed result
StoredSession_Fresh(op, k, o) ==
    Session(IF o.hasId THEN FreshId(k, op.attempt) ELSE 0, o.cost)

StoredSession(op, k, o) ==
    Session(IF o.hasId
               THEN (IF Resumes(op.sess) THEN op.sess.sessionId ELSE FreshId(k, op.attempt))
               ELSE op.sess.sessionId,
            AddCost(op.sess.totalCost, o.cost))

\* the process of the k-th operation exits: runClaude from `await proc.exited` on
ProcExit(u, k, o) ==
    /\ variant = "sub"
    /\ k \in OpIndex(u)
    /\ userQueues[u][k].pc = "proc"
    /\ reply' = NoReply
    /\ UNCHANGED <<sendVars, variant, newH, abortH, cleared>>
    /\ LET op == userQueues[u][k]
           deleted == [activeProcesses EXCEPT ![u] = 0]
       IN  CASE o.type = "ok" ->
                  /\ sessions' = [sessions EXCEPT ![u] = StoredSession(op, k, o)]
                  /\ activeProcesses' = deleted
                  /\ userQueues' = SetOp(u, k, [op EXCEPT !.pc = "push", !.call = "none",
                         !.out = IF o.isError THEN "error" ELSE "ok"])
             [] o.type # "ok" /\ MayRetry(op.isRetry, op.sess, o.type = "expired") ->
                  /\ op.attempt < MaxAttempts
                  /\ runClaude(u, k, TRUE, [sessions EXCEPT ![u] = NoSession])
             [] OTHER ->
                  /\ activeProcesses' = deleted
                  /\ userQueues' = SetOp(u, k, [op EXCEPT !.pc = "push", !.call = "none",
                         !.out = "error"])
                  /\ UNCHANGED sessions

\* setTimeout(() => proc.kill(), claudeTimeoutMs)
Timeout(u, k) ==
    /\ variant = "sub"
    /\ k \in OpIndex(u)
    /\ userQueues[u][k].pc = "proc"
    /\ userQueues[u][k].call = "running"
    /\ userQueues' = SetOp(u, k, [userQueues[u][k] EXCEPT !.call = "killed"])
    /\ reply' = NoReply
    /\ UNCHANGED <<sendVars, variant, sessions, activeProcesses, newH, abortH, cleared>>


\* ------------------------------------------------- remote variant: sendPrompt
\* how a request to the session server ends:
\*   "ok"       2xx: cost_usd, is_error
\*   "expired"  the Error message contains "404", "not found" or "No conversation"
\*   "fail"     any other rejection (5xx, network, AbortSignal.timeout)
SendOutcomes ==
    [type : {"ok"}, cost : Costs, isError : BOOLEAN]
    \cup {[type |-> t, cost |-> 0, isError |-> TRUE] : t \in {"expired", "fail"}}

\* sendPrompt(userId, prompt) up to its first await, called by the k-th
\* operation when the session map is sess
sendPrompt(u, k, sess) ==
    /\ sessions' = sess
    /\ UNCHANGED activeProcesses
    /\ LET op == userQueues[u][k]
           op0 == [op EXCEPT !.cost0 = IF op.attempt = 0 THEN sess[u].totalCost ELSE @]
       IN  IF sess[u].present
              THEN userQueues' = SetOp(u, k, [op0 EXCEPT
                       !.pc = "send", !.sess = sess[u], !.call = "running", !.attempt = @ + 1])
              ELSE userQueues' = SetOp(u, k, [op0 EXCEPT
                       !.pc = "create", !.sess = NoSession, !.call = "running"])

\* POST /session settles
CreateDone(u, k, ok) ==
    /\ variant = "rem"
    /\ k \in OpIndex(u)
    /\ userQueues[u][k].pc = "create"
    /\ reply' = NoReply
    /\ UNCHANGED <<sendVars, variant, activeProcesses, newH, abortH, cleared>>
    /\ LET op == userQueues[u][k]
           created == Session(FreshId(k, op.attempt + 1), 0)
       IN  IF ok
              THEN /\ sessions' = [sessions EXCEPT ![u] = created]
                   /\ userQueues' = SetOp(u, k, [op EXCEPT
                          !.pc = "send", !.sess = created, !.call = "running", !.attempt = @ + 1])
              ELSE /\ userQueues' = SetOp(u, k, [op EXCEPT
                          !.pc = "push", !.call = "none", !.out = "error"])
                   /\ UNCHANGED sessions

\* the catch of sendPrompt retries on a session-expired error
RetriesExpired_Once(op) == op.attempt < 2

RetriesExpired(op) == TRUE

\* POST /session/:id/message settles
SendDone(u, k, o) ==
    /\ variant = "rem"
    /\ k \in OpIndex(u)
    /\ userQueues[u][k].pc = "send"
    /\ reply' = NoReply
    /\ UNCHANGED <<sendVars, variant, activeProcesses, newH, abortH, cleared>>
    /\ LET op == userQueues[u][k]
           failed == SetOp(u, k, [op EXCEPT !.pc = "push", !.call = "none", !.out = "error"])
       IN  CASE o.type = "ok" /\ sessions[u].present ->
                  /\ sessions' = [sessions EXCEPT ![u].totalCost = AddCost(@, o.cost)]
                  /\ userQueues' = SetOp(u, k, [op EXCEPT !.pc = "push", !.call = "none",
                         !.out = IF o.isError THEN "error" ELSE "ok"])
             [] o.type = "ok" /\ ~sessions[u].present ->
                  \* sessions.get(userId)! is undefined: TypeError, rethrown by the catch
                  /\ userQueues' = failed
                  /\ UNCHANGED sessions
             [] o.type = "expired" /\ RetriesExpired(op) ->
                  /\ op.attempt < MaxAttempts
                  /\ sendPrompt(u, k, [sessions EXCEPT ![u] = NoSession])
             [] OTHER ->
                  /\ userQueues' = failed
                  /\ UNCHANGED sessions

\* ------------------------------------------------------- the enqueued operation
\* fn is called: the then-callback registered by enqueueForUser runs
StartOp(u, k) ==
    /\ k \in OpIndex(u)
    /\ userQueues[u][k].pc = "wait"
    /\ ThenRuns(PrevState(u, k))
    /\ reply' = NoReply
    /\ cleared' = [cleared EXCEPT ![u] = NotCleared]
    /\ UNCHANGED <<sendVars, variant, newH, abortH>>
    /\ CASE userQueues[u][k].kind = "fn" ->
              /\ userQueues' = SetOp(u, k, [userQueues[u][k] EXCEPT !.pc = "fn"])
              /\ UNCHANGED <<sessions, activeProcesses>>
         [] userQueues[u][k].kind = "prompt" /\ variant = "sub" ->
              runClaude(u, k, FALSE, sessions)
         [] OTHER ->
              sendPrompt(u, k, sessions)

\* await sendMessage(userId, responseText) returns: every push was attempted,
\* a failed push is caught, so the async function fulfils
PushDone(u, k) ==
    /\ k \in OpIndex(u)
    /\ userQueues[u][k].pc = "push"
    /\ userQueues' = SetOp(u, k, Settle(userQueues[u][k], "fulfilled"))
    /\ reply' = NoReply
    /\ UNCHANGED <<sendVars, variant, sessions, activeProcesses, newH, abortH, cleared>>


\* ------------------------------------------------------------ command router
\* the inbound texts the model draws from
Texts == {"/new", "/NEW", "/abort", "/Abort", "/sessions", "/cost", "hello", "/news"}

\* String.prototype.toLowerCase on Texts
toLowerCase(t) ==
    CASE t = "/NEW" -> "/new"
      [] t = "/Abort" -> "/abort"
      [] OTHER -> t

\* a user sends /new or /abort only once the backend request of the previous
\* such command has settled
HandlersIdle(u) == ~newH[u].busy /\ ~abortH[u].busy

\* "/new", subprocess variant
CmdNewSub(u) ==
    /\ sessions' = [sessions EXCEPT ![u] = NoSession]
    /\ cleared' = [cleared EXCEPT ![u] = Cleared(u)]
    /\ reply' = Reply(u, "cleared")
    /\ UNCHANGED <<sendVars, variant, activeProcesses, userQueues, newH, abortH>>

\* "/new", remote variant, up to `await serverRequest("DELETE", ...)`
CmdNewRem(u) ==
    /\ HandlersIdle(u)
    /\ IF sessions[u].present
          THEN /\ newH' = [newH EXCEPT ![u] = Awaiting(sessions[u].sessionId)]
               /\ reply' = NoReply
               /\ UNCHANGED <<sendVars, variant, sessions, activeProcesses, userQueues, abortH, cleared>>
          ELSE /\ sessions' = [sessions EXCEPT ![u] = NoSession]
               /\ cleared' = [cleared EXCEPT ![u] = Cleared(u)]
               /\ reply' = Reply(u, "cleared")
               /\ UNCHANGED <<sendVars, variant, activeProcesses, userQueues, newH, abortH>>

\* "/new", remote variant: the DELETE settled (ok: with a 2xx answer); its
\* rejection is swallowed by .catch(() => {})
NewDone_KeepsOnFailure(u, ok) ==
    /\ variant = "rem"
    /\ newH[u].busy
    /\ newH' = [newH EXCEPT ![u] = Idle]
    /\ sessions' = [sessions EXCEPT ![u] = IF ok THEN NoSession ELSE @]
    /\ cleared' = [cleared EXCEPT ![u] = IF ok THEN Cleared(u) ELSE @]
    /\ reply' = IF ok THEN Reply(u, "cleared") ELSE NoReply
    /\ UNCHANGED <<sendVars, variant, activeProcesses, userQueues, abortH>>

NewDone(u, ok) ==
    /\ variant = "rem"
    /\ newH[u].busy
    /\ newH' = [newH EXCEPT ![u] = Idle]
    /\ sessions' = [sessions EXCEPT ![u] = NoSession]
    /\ cleared' = [cleared EXCEPT ![u] = Cleared(u)]
    /\ reply' = Reply(u, "cleared")
    /\ UNCHANGED <<sendVars, variant, activeProcesses, userQueues, abortH>>

\* "/abort" that also forgets the session when there is nothing to kill
CmdAbortSub_ClearsSession(u) ==
    LET proc == activeProcesses[u]
    IN  IF proc # 0
           THEN /\ userQueues' = SetOp(u, proc, [userQueues[u][proc] EXCEPT
                       !.call = "killed", !.cancelled = TRUE])
                /\ activeProcesses' = [activeProcesses EXCEPT ![u] = 0]
                /\ reply' = Reply(u, "cancelled")
                /\ UNCHANGED <<sendVars, variant, sessions, newH, abortH, cleared>>
           ELSE /\ sessions' = [sessions EXCEPT ![u] = NoSession]
                /\ reply' = Reply(u, "noactive")
                /\ UNCHANGED <<sendVars, variant, activeProcesses, userQueues, newH, abortH, cleared>>

\* "/abort" that also gives up the prompts waiting behind the killed one
CmdAbortSub_DropsQueued(u) ==
    LET proc == activeProcesses[u]
    IN  IF proc # 0
           THEN /\ userQueues' = [userQueues EXCEPT ![u] =
                       [i \in DOMAIN @ |->
                           IF i = proc THEN [@[i] EXCEPT !.call = "killed", !.cancelled = TRUE]
                           ELSE IF @[i].pc = "wait" THEN Settle(@[i], "fulfilled")
                           ELSE @[i]]]
                /\ activeProcesses' = [activeProcesses EXCEPT ![u] = 0]
                /\ reply' = Reply(u, "cancelled")
                /\ UNCHANGED <<sendVars, variant, sessions, newH, abortH, cleared>>
           ELSE /\ reply' = Reply(u, "noactive")
                /\ UNCHANGED <<sendVars, variant, sessions, activeProcesses, userQueues, newH, abortH, cleared>>

\* "/abort", subprocess variant
CmdAbortSub(u) ==
    LET proc == activeProcesses[u]
    IN  IF proc # 0
           THEN /\ userQueues' = SetOp(u, proc, [userQueues[u][proc] EXCEPT
                       !.call = "killed", !.cancelled = TRUE])
                /\ activeProcesses' = [activeProcesses EXCEPT ![u] = 0]
                /\ reply' = Reply(u, "cancelled")
                /\ UNCHANGED <<sendVars, variant, sessions, newH, abortH, cleared>>
           ELSE /\ reply' = Reply(u, "noactive")
                /\ UNCHANGED <<sendVars, variant, sessions, activeProcesses, userQueues, newH, abortH, cleared>>

\* "/abort", remote variant, up to `await serverRequest("POST", .../abort)`
CmdAbortRem(u) ==
    /\ HandlersIdle(u)
    /\ IF sessions[u].present
          THEN /\ abortH' = [abortH EXCEPT ![u] = Awaiting(sessions[u].sessionId)]
               /\ reply' = NoReply
               /\ UNCHANGED <<sendVars, variant, sessions, activeProcesses, userQueues, newH, cleared>>
          ELSE /\ reply' = Reply(u, "noactive")
               /\ UNCHANGED <<sendVars, variant, sessions, activeProcesses, userQueues, newH, abortH, cleared>>

\* the session server's POST /session/:id/abort: the operations of the user
\* whose prompt is running on session id
ServerAborts(u, id) ==
    {k \in OpIndex(u) : /\ userQueues[u][k].pc = "send"
                        /\ userQueues[u][k].call = "running"
                        /\ userQueues[u][k].sess.sessionId = id}

\* "/abort", remote variant: the request settled; a rejection is caught as
\* { aborted: false }
AbortDone(u, answered) ==
    /\ variant = "rem"
    /\ abortH[u].busy
    /\ abortH' = [abortH EXCEPT ![u] = Idle]
    /\ UNCHANGED <<sendVars, variant, sessions, activeProcesses, newH, cleared>>
    /\ LET hit == ServerAborts(u, abortH[u].sessionId)
       IN  IF answered /\ hit # {}
              THEN /\ userQueues' = [userQueues EXCEPT ![u] =
                          [i \in DOMAIN @ |-> IF i \in hit
                               THEN [@[i] EXCEPT !.call = "killed", !.cancelled = TRUE]
                               ELSE @[i]]]
                   /\ reply' = Reply(u, "cancelled")
              ELSE /\ reply' = Reply(u, "noactive")
                   /\ UNCHANGED userQueues

\* "/sessions": the Status line is activeProcesses.has(userId) in the
\* subprocess variant and the server's answer, when it gives one, in the other
CmdSessions(u) ==
    /\ reply' = Reply(u,
          IF variant = "sub"
             THEN (IF Resumes(sessions[u])
                      THEN (IF activeProcesses[u] # 0 THEN "sessionRunning" ELSE "sessionIdle")
                      ELSE "noSession")
             ELSE (IF sessions[u].present THEN "sessionInfo" ELSE "noSession"))
    /\ UNCHANGED <<sendVars, variant, sessions, activeProcesses, userQueues, newH, abortH, cleared>>

\* "/cost"
CmdCost(u) ==
    /\ reply' = Reply(u, IF sessions[u].present THEN "cost" ELSE "noCost")
    /\ UNCHANGED <<sendVars, variant, sessions, activeProcesses, userQueues, newH, abortH, cleared>>

\* anything else: enqueueForUser(userId, async () => { ... })
EnqueuePrompt(u) ==
    /\ Len(userQueues[u]) < MaxOps
    /\ enqueueForUser(u, "prompt")
    /\ reply' = NoReply
    /\ UNCHANGED <<sendVars, variant, sessions, activeProcesses, newH, abortH, cleared>>

\* the command handleTextMessage takes text for
Route_CaseSensitive(text) ==
    IF text \in {"/new", "/abort", "/sessions", "/cost"} THEN text ELSE "prompt"

Route(text) ==
    IF toLowerCase(text) \in {"/new", "/abort", "/sessions", "/cost"}
       THEN toLowerCase(text)
       ELSE "prompt"

\* handleTextMessage(userId, text, replyToken) up to its first await
handleTextMessage(u, text) ==
    CASE Route(text) = "/new" -> IF variant = "sub" THEN CmdNewSub(u) ELSE CmdNewRem(u)
      [] Route(text) = "/abort" -> IF variant = "sub" THEN CmdAbortSub(u) ELSE CmdAbortRem(u)
      [] Route(text) = "/sessions" -> CmdSessions(u)
      [] Route(text) = "/cost" -> CmdCost(u)
      [] OTHER -> EnqueuePrompt(u)

\* --------------------------------------------------------------- specification
Variants == {"sub", "rem"}

\* no message is being sent
NoResponse == [thrown |-> FALSE, isError |-> FALSE, cost |-> 0, len |-> 0, out |-> 0]

SendIdle ==
    /\ msgText = << >>
    /\ limit = 0
    /\ remaining = << >>
    /\ chunks = << >>
    /\ spc = "idle"
    /\ pushes = << >>
    /\ response = NoResponse

\* the maps are empty when the process starts
Started0 ==
    /\ sessions = [u \in Users |-> NoSession]
    /\ activeProcesses = [u \in Users |-> 0]
    /\ userQueues = [u \in Users |-> << >>]
    /\ newH = [u \in Users |-> Idle]
    /\ abortH = [u \in Users |-> Idle]
    /\ reply = NoReply
    /\ cleared = [u \in Users |-> NotCleared]

Init ==
    /\ variant \in Variants
    /\ Started0
    /\ SendIdle

Receive == \E u \in Chatting : \E text \in Texts : handleTextMessage(u, text)
Start == \E u \in Users : \E k \in 1..MaxOps : StartOp(u, k)
Exit == \E u \in Users : \E k \in 1..MaxOps : \E o \in ProcOutcomes : ProcExit(u, k, o)
TimerFires == \E u \in Users : \E k \in 1..MaxOps : Timeout(u, k)
Created == \E u \in Users : \E k \in 1..MaxOps : \E ok \in BOOLEAN : CreateDone(u, k, ok)
Sent == \E u \in Users : \E k \in 1..MaxOps : \E o \in SendOutcomes : SendDone(u, k, o)
Pushed == \E u \in Users : \E k \in 1..MaxOps : PushDone(u, k)
Deleted == \E u \in Users : \E ok \in BOOLEAN : NewDone(u, ok)
Aborted == \E u \in Users : \E answered \in BOOLEAN : AbortDone(u, answered)

Next ==
    \/ Receive
    \/ Start
    \/ Exit
    \/ TimerFires
    \/ Created
    \/ Sent
    \/ Pushed
    \/ Deleted
    \/ Aborted

Spec == Init /\ [][Next]_vars


\* ------------------------------------------------ enqueueForUser on its own
(***************************************************************************)
(* enqueueForUser takes any fn.  SpecQueue calls it with abstract          *)
(* operations that take any time to settle, or never settle, and fulfil or *)
(* reject; the prompt operation of handleTextMessage catches everything    *)
(* and always fulfils.  A then-callback of a settled promise is run by the *)
(* microtask queue, hence the weak fairness of StartOp.                    *)
(***************************************************************************)
EnqueueFn(u) ==
    /\ Len(userQueues[u]) < MaxOps
    /\ enqueueForUser(u, "fn")
    /\ reply' = NoReply
    /\ UNCHANGED <<sendVars, variant, sessions, activeProcesses, newH, abortH, cleared>>

\* the promise returned by fn settles
SettleFn(u, k, res) ==
    /\ k \in OpIndex(u)
    /\ userQueues[u][k].pc = "fn"
    /\ userQueues' = SetOp(u, k, Settle(userQueues[u][k], res))
    /\ reply' = NoReply
    /\ UNCHANGED <<sendVars, variant, sessions, activeProcesses, newH, abortH, cleared>>

Enqueued == \E u \in Users : EnqueueFn(u)
FnSettled == \E u \in Users : \E k \in 1..MaxOps : \E res \in {"fulfilled", "rejected"} : SettleFn(u, k, res)

NextQueue ==
    \/ Enqueued
    \/ Start
    \/ FnSettled

SpecQueue ==
    /\ Init
    /\ [][NextQueue]_vars
    /\ \A u \in Users : \A k \in 1..MaxOps : WF_vars(StartOp(u, k))

\* ------------------------------------------------------------------ chunkText
(***************************************************************************)
(* Strings are sequences of characters; "#" stands for the backtick.  The  *)
(* characters chunkText injects (the closing fence "\n```" and the         *)
(* reopening fence "```\n") are written with glyphs of their own, "^" for  *)
(* a backtick and "$" for a newline, so that they can be told from the     *)
(* characters of the input; every test the code makes takes them for the   *)
(* backtick and the newline they are.                                      *)
(***************************************************************************)
\* longest text the model draws
MaxLen == 7
\* iterations of the while loop the model follows
MaxChunks == 4

Chars == {"a", " ", "\n", "#"}
Limits == {3, 5}

BacktickChars == {"#", "^"}
NewlineChars == {"\n", "$"}
SpaceChars == {" "}
\* what String.prototype.trimStart removes
Whitespace == SpaceChars \cup NewlineChars

Strings(n) == UNION {[1..m -> Chars] : m \in 0..n}

Min(S) == CHOOSE x \in S : \A y \in S : x <= y

\* s.lastIndexOf(c, position): the greatest 0-based index <= position at which
\* the character stands, -1 when there is none
lastIndexOf(s, cs, position) ==
    LET at == {i \in 0..(Len(s) - 1) : i <= position /\ s[i + 1] \in cs}
    IN  IF at = {} THEN -1 ELSE Max(at)

\* s.slice(from, to) and s.slice(from)
slice(s, from, to) == SubSeq(s, from + 1, IF to < Len(s) THEN to ELSE Len(s))
sliceFrom(s, from) == SubSeq(s, from + 1, Len(s))

trimStart(s) ==
    LET kept == {i \in 1..Len(s) : s[i] \notin Whitespace}
    IN  IF kept = {} THEN << >> ELSE SubSeq(s, Min(kept), Len(s))

\* (chunk.match(/```/g) || []).length: matches are found left to right and do
\* not overlap
RECURSIVE matchCount(_, _)
matchCount(s, i) ==
    IF i + 2 > Len(s) THEN 0
    ELSE IF s[i] \in BacktickChars /\ s[i + 1] \in BacktickChars /\ s[i + 2] \in BacktickChars
         THEN 1 + matchCount(s, i + 3)
         ELSE matchCount(s, i + 1)

backtickCount(s) == matchCount(s, 1)

\* "\n```" and "```\n"
ClosingFence == <<"$", "^", "^", "^">>
ReopeningFence == <<"^", "^", "^", "$">>

\* breakAt < limit * 0.3, for the integers breakAt and limit
BelowThreshold_Half(breakAt, lim) == 2 * breakAt < lim

BelowThreshold(breakAt, lim) == 10 * breakAt < 3 * lim

\* the break position of one iteration
BreakAt(rem, lim) ==
    LET atNewline == lastIndexOf(rem, NewlineChars, lim)
        atSpace == lastIndexOf(rem, SpaceChars, lim)
    IN  IF ~BelowThreshold(atNewline, lim) THEN atNewline
        ELSE IF ~BelowThreshold(atSpace, lim) THEN atSpace
        ELSE lim

\* the chunk an iteration pushes and the remaining text it leaves
Peel_SkipsBreakChar(rem, lim) ==
    LET breakAt == BreakAt(rem, lim)
        chunk == slice(rem, 0, breakAt)
        rest == trimStart(sliceFrom(rem, breakAt + 1))
    IN  IF backtickCount(chunk) % 2 # 0
           THEN [chunk |-> chunk \o ClosingFence, remaining |-> ReopeningFence \o rest]
           ELSE [chunk |-> chunk, remaining |-> rest]

Peel_NoReopen(rem, lim) ==
    LET breakAt == BreakAt(rem, lim)
        chunk == slice(rem, 0, breakAt)
        rest == trimStart(sliceFrom(rem, breakAt))
    IN  IF backtickCount(chunk) % 2 # 0
           THEN [chunk |-> chunk \o ClosingFence, remaining |-> rest]
           ELSE [chunk |-> chunk, remaining |-> rest]

Peel(rem, lim) ==
    LET breakAt == BreakAt(rem, lim)
        chunk == slice(rem, 0, breakAt)
        rest == trimStart(sliceFrom(rem, breakAt))
    IN  IF backtickCount(chunk) % 2 # 0
           THEN [chunk |-> chunk \o ClosingFence, remaining |-> ReopeningFence \o rest]
           ELSE [chunk |-> chunk, remaining |-> rest]

\* chunkText(text, limit) is entered: the early return, or the locals are set
chunkTextCall ==
    /\ spc = "call"
    /\ IF Len(msgText) <= limit
          THEN /\ chunks' = <<msgText>>
               /\ spc' = "return"
               /\ UNCHANGED remaining
          ELSE /\ chunks' = << >>
               /\ remaining' = msgText
               /\ spc' = "loop"
    /\ UNCHANGED <<msgText, limit, pushes, response>>
    /\ UNCHANGED <<variant, sessions, activeProcesses, userQueues, newH, abortH, reply, cleared>>

\* one test of the while condition and, when it holds, one run of the body
chunkTextLoop ==
    /\ spc = "loop"
    /\ IF Len(remaining) = 0
          THEN /\ spc' = "return"
               /\ UNCHANGED <<chunks, remaining>>
          ELSE IF Len(remaining) <= limit
          THEN /\ chunks' = Append(chunks, remaining)
               /\ spc' = "return"
               /\ UNCHANGED remaining
          ELSE /\ Len(chunks) < MaxChunks
               /\ chunks' = Append(chunks, Peel(remaining, limit).chunk)
               /\ remaining' = Peel(remaining, limit).remaining
               /\ UNCHANGED spc
    /\ UNCHANGED <<msgText, limit, pushes, response>>
    /\ UNCHANGED <<variant, sessions, activeProcesses, userQueues, newH, abortH, reply, cleared>>

\* chunkText on its own: any text, any limit
InitChunk ==
    /\ variant = "sub"
    /\ Started0
    /\ msgText \in Strings(MaxLen)
    /\ limit \in Limits
    /\ remaining = << >>
    /\ chunks = << >>
    /\ spc = "call"
    /\ pushes = << >>
    /\ response = NoResponse

NextChunk ==
    \/ chunkTextCall
    \/ chunkTextLoop

SpecChunk == InitChunk /\ [][NextChunk]_vars

\* ---------------------------------------------------------------- sendMessage
(***************************************************************************)
(* SpecSend: an enqueued operation of a user calls sendMessage, which      *)
(* calls chunkText and then pushes the chunks one after the other; every   *)
(* pushMessage is delivered or rejected.  The operation awaiting           *)
(* sendMessage is the one at pc = "push".                                  *)
(***************************************************************************)
\* the texts sent in SpecSend: words and spaces
SendTexts == UNION {[1..m -> {"a", " "}] : m \in 0..MaxLen}

\* `await sendMessage(userId, responseText)` in the k-th operation of u:
\* sendMessage is entered and calls chunkText
sendMessageCall(u, k) ==
    /\ k \in OpIndex(u)
    /\ userQueues[u][k].pc = "fn"
    /\ spc = "idle"
    /\ spc' = "call"
    /\ userQueues' = SetOp(u, k, [userQueues[u][k] EXCEPT !.pc = "push"])
    /\ reply' = NoReply
    /\ UNCHANGED <<msgText, limit, remaining, chunks, pushes, response>>
    /\ UNCHANGED <<variant, sessions, activeProcesses, newH, abortH, cleared>>

\* the chunk the for loop is at
NextChunkIndex == Len(pushes) + 1

\* a pushMessage without .catch: its rejection ends sendMessage and the
\* operation awaiting it
pushChunk_Rethrows(u, k, ok) ==
    /\ k \in OpIndex(u)
    /\ userQueues[u][k].pc = "push"
    /\ spc \in {"return", "push"}
    /\ NextChunkIndex <= Len(chunks)
    /\ pushes' = Append(pushes, [chunk |-> chunks[NextChunkIndex],
                                 result |-> IF ok THEN "sent" ELSE "failed"])
    /\ spc' = IF ok THEN "push" ELSE "done"
    /\ userQueues' = IF ok THEN userQueues
                     ELSE SetOp(u, k, Settle(userQueues[u][k], "rejected"))
    /\ reply' = NoReply
    /\ UNCHANGED <<msgText, limit, remaining, chunks, response>>
    /\ UNCHANGED <<variant, sessions, activeProcesses, newH, abortH, cleared>>

\* one iteration of `for (const chunk of chunks)`: the pushMessage of the chunk
\* settles (ok: delivered), a rejection is logged by .catch
pushChunk(u, k, ok) ==
    /\ k \in OpIndex(u)
    /\ userQueues[u][k].pc = "push"
    /\ spc \in {"return", "push"}
    /\ NextChunkIndex <= Len(chunks)
    /\ pushes' = Append(pushes, [chunk |-> chunks[NextChunkIndex],
                                 result |-> IF ok THEN "sent" ELSE "failed"])
    /\ spc' = "push"
    /\ reply' = NoReply
    /\ UNCHANGED <<msgText, limit, remaining, chunks, response>>
    /\ UNCHANGED <<variant, sessions, activeProcesses, userQueues, newH, abortH, cleared>>

\* the for loop is over: sendMessage returns and the operation awaiting it
\* returns, so its promise fulfils
sendMessageReturn(u, k) ==
    /\ k \in OpIndex(u)
    /\ userQueues[u][k].pc = "push"
    /\ spc \in {"return", "push"}
    /\ NextChunkIndex > Len(chunks)
    /\ spc' = "done"
    /\ userQueues' = SetOp(u, k, Settle(userQueues[u][k], "fulfilled"))
    /\ reply' = NoReply
    /\ UNCHANGED <<msgText, limit, remaining, chunks, pushes, response>>
    /\ UNCHANGED <<variant, sessions, activeProcesses, newH, abortH, cleared>>

InitSend ==
    /\ variant = "sub"
    /\ Started0
    /\ msgText \in SendTexts
    /\ limit \in Limits
    /\ remaining = << >>
    /\ chunks = << >>
    /\ spc = "idle"
    /\ pushes = << >>
    /\ response = NoResponse

EnqueuedSend == \E u \in Chatting : EnqueueFn(u)
SendCalled == \E u \in Chatting : \E k \in 1..MaxOps : sendMessageCall(u, k)
ChunkPushed == \E u \in Chatting : \E k \in 1..MaxOps : \E ok \in BOOLEAN : pushChunk(u, k, ok)
SendReturned == \E u \in Chatting : \E k \in 1..MaxOps : sendMessageReturn(u, k)

NextSend ==
    \/ EnqueuedSend
    \/ Start
    \/ FnSettled
    \/ SendCalled
    \/ chunkTextCall
    \/ chunkTextLoop
    \/ ChunkPushed
    \/ SendReturned

SpecSend == InitSend /\ [][NextSend]_vars

\* ------------------------------------------------------- the response text
(***************************************************************************)
(* The prompt operation turns what the backend call gave into the text it  *)
(* hands to sendMessage.  Texts are taken by their length here; len = -1   *)
(* stands for a result or an error message that is undefined.              *)
(***************************************************************************)
\* "Error: "
ErrorPrefixLen == 7
\* err.message.slice(0, 200)
ErrorSliceLen == 200
\* "Unknown error"
UnknownErrorLen == 13
\* "Done. (no text output)"
NoTextLen == 22
\* "\n\n[cost: $0.0100]"
CostTagLen == 17

ResultLens == {-1, 0, 1, 199, 200, 201, 300, 5000, 6000}

\* what the backend call gave: it threw an Error whose message has len
\* characters, or returned a result of len characters with cost and isError
BackendResults ==
    [thrown : BOOLEAN, isError : BOOLEAN, cost : Costs, len : ResultLens, out : {-1}]

\* responseText.length
ResponseLen(r) ==
    LET sliced == IF r.len < ErrorSliceLen THEN r.len ELSE ErrorSliceLen
        result == IF r.len = -1 THEN NoTextLen ELSE r.len
    IN  IF r.thrown
           THEN ErrorPrefixLen + (IF r.len = -1 THEN UnknownErrorLen ELSE sliced)
           ELSE IF r.isError
           THEN ErrorPrefixLen + result
           ELSE result + (IF r.cost > 0 THEN CostTagLen ELSE 0)

\* the prompt operation builds the text it sends
BuildResponse ==
    /\ response.out = -1
    /\ response' = [response EXCEPT !.out = ResponseLen(response)]
    /\ UNCHANGED <<msgText, limit, remaining, chunks, spc, pushes>>
    /\ UNCHANGED <<variant, sessions, activeProcesses, userQueues, newH, abortH, reply, cleared>>

InitReply ==
    /\ variant \in Variants
    /\ Started0
    /\ msgText = << >>
    /\ limit = 0
    /\ remaining = << >>
    /\ chunks = << >>
    /\ spc = "idle"
    /\ pushes = << >>
    /\ response \in BackendResults

NextReply == BuildResponse

SpecReply == InitReply /\ [][NextReply]_vars

\* ---------------------------------------------------------------- the claims
Op(u, k) == userQueues[u][k]

\* C1: for every user, an operation has started only if the operation enqueued
\* before it for that user has settled (fulfilled or rejected): the operations
\* of one user start in submission order and never overlap.
C1_InOrderNoOverlap ==
    \A u \in Users : \A k \in OpIndex(u) :
        (k > 1 /\ Started(Op(u, k))) => Settled(Op(u, k - 1))

\* C1 witness: a user's second operation runs after the first settled while a
\* third party's operation is still running
C1_Witness ==
    /\ Len(userQueues["u1"]) >= 2
    /\ Settled(Op("u1", 1))
    /\ Running(Op("u1", 2))
    /\ Len(userQueues["u2"]) >= 1
    /\ Running(Op("u2", 1))

StartedAt(u, k) == IF k \in OpIndex(u) THEN Started(Op(u, k)) ELSE FALSE
RejectedWithSuccessor(u, k) ==
    IF k + 1 \in OpIndex(u) THEN Op(u, k).res = "rejected" ELSE FALSE

\* C3: the promise stored in userQueues is never rejected, and an operation
\* enqueued behind one that rejects is still started.
C3_ChainSurvivesRejection ==
    /\ [](\A u \in Users : \A k \in OpIndex(u) : Op(u, k).tail # "rejected")
    /\ \A u \in Users : \A k \in 1..MaxOps :
          RejectedWithSuccessor(u, k) ~> StartedAt(u, k + 1)

\* C3 witness: the first operation rejected and the one behind it has started
C3_Witness ==
    /\ Len(userQueues["u1"]) >= 2
    /\ Op("u1", 1).res = "rejected"
    /\ Started(Op("u1", 2))


\* the operations of a user that await a backend call
InFlightOps(u) == {k \in OpIndex(u) : InFlight(Op(u, k))}

\* C2: for every user at most one backend call made by prompt forwarding is in
\* flight; in the subprocess variant the handle in activeProcesses is the
\* process of the operation in flight, and there is none when the user has no
\* call in flight.
C2_OneCallPerUser ==
    \A u \in Users :
        /\ Cardinality(InFlightOps(u)) <= 1
        /\ activeProcesses[u] # 0 => activeProcesses[u] \in InFlightOps(u)

\* C2 witness: the retry after a session-expired error is the one call in
\* flight and its process is the handle, after /abort removed the handle of
\* the first attempt
C2_Witness ==
    /\ variant = "sub"
    /\ Len(userQueues["u1"]) >= 2
    /\ Settled(Op("u1", 1))
    /\ Op("u1", 2).attempt = 2
    /\ Op("u1", 2).pc = "proc"
    /\ Op("u1", 2).cancelled
    /\ activeProcesses["u1"] = 2

\* C4: a prompt makes at most two send attempts, and the second one is made on
\* a conversation created for it after the session-expired error.
C4_AtMostOneRetry ==
    \A u \in Users : \A k \in OpIndex(u) :
        /\ Op(u, k).attempt <= 2
        /\ (Op(u, k).attempt = 2 /\ InFlight(Op(u, k))) =>
              IF variant = "sub"
                 THEN ~Resumes(Op(u, k).sess)
                 ELSE Op(u, k).pc = "send" => Op(u, k).sess.sessionId = FreshId(k, 2)

\* C5: once /new has been handled, the store does not hold again a handle the
\* user had obtained before the reset, so that the next prompt cannot resume
\* it: until the next operation starts the store has no entry with such a
\* handle and its accumulated cost.
C5_ResetLasts ==
    \A u \in Users :
        cleared[u].on => ~(Resumes(sessions[u]) /\ sessions[u].sessionId <= cleared[u].stale)


\* Spec with the scheduling of the then-callbacks: a callback of a settled
\* promise is always run
FairSpec ==
    /\ Spec
    /\ \A u \in Users : \A k \in 1..MaxOps : WF_vars(StartOp(u, k))

\* the steps of the /abort handler of a user, and those in which it replies
AbortStep(u) ==
    \/ handleTextMessage(u, "/abort")
    \/ \E answered \in BOOLEAN : AbortDone(u, answered)

AbortReplies(u) ==
    \/ variant = "sub" /\ handleTextMessage(u, "/abort")
    \/ variant = "rem" /\ ~sessions[u].present /\ handleTextMessage(u, "/abort")
    \/ \E answered \in BOOLEAN : AbortDone(u, answered)

\* the step in which the outcome of /abort is decided, the request having
\* reached the server in the remote variant
AbortDecides(u) ==
    \/ variant = "sub" /\ handleTextMessage(u, "/abort")
    \/ variant = "rem" /\ ~sessions[u].present /\ handleTextMessage(u, "/abort")
    \/ AbortDone(u, TRUE)

\* the operations of a user whose backend call is awaited and not yet cancelled
LiveCalls(u) == {k \in InFlightOps(u) : Op(u, k).call = "running"}

\* C6: when /abort is decided while a backend call of the user is in flight
\* (and not cancelled already), the call is cancelled, the active-operation
\* handle is gone and the reply is "Prompt cancelled."; the prompt behind a
\* cancelled operation starts only once that operation has settled.
C6_AbortCancels ==
    /\ [][\A u \in Users :
            (AbortDecides(u) /\ LiveCalls(u) # {}) =>
                /\ reply' = Reply(u, "cancelled")
                /\ activeProcesses'[u] = 0
                /\ \A k \in LiveCalls(u) : userQueues'[u][k].call = "killed"]_vars
    /\ [](\A u \in Users : \A k \in OpIndex(u) :
            (k > 1 /\ Op(u, k - 1).cancelled /\ Started(Op(u, k))) => Settled(Op(u, k - 1)))

\* C7: a step of the /abort handler taken while the user has no backend call
\* in flight leaves sessions, activeProcesses and userQueues unchanged, and
\* the reply it gives is "No active prompt.".
C7_AbortIdleIsNoOp ==
    [][\A u \in Users :
          (AbortStep(u) /\ InFlightOps(u) = {}) =>
              /\ UNCHANGED <<sessions, activeProcesses, userQueues>>
              /\ reply' \in {NoReply, Reply(u, "noactive")}
              /\ AbortReplies(u) => reply' = Reply(u, "noactive")]_vars

\* C7 witness: "No active prompt." was replied to a user who has a session
\* and a settled prompt, with nothing in flight
C7_Witness ==
    /\ reply = Reply("u1", "noactive")
    /\ sessions["u1"].present
    /\ Len(userQueues["u1"]) >= 1
    /\ InFlightOps("u1") = {}

CancelledWithSuccessor(u, k) ==
    IF k + 1 \in OpIndex(u) THEN Op(u, k).cancelled /\ Settled(Op(u, k)) ELSE FALSE

\* C8: a step of the /abort handler leaves every operation that has not
\* started as it is, in its place in the chain; the operations behind a
\* cancelled one start only after it has settled, and the next one does start.
C8_AbortSparesQueued ==
    /\ [][\A u \in Users :
            AbortStep(u) =>
                \A k \in OpIndex(u) :
                    Op(u, k).pc = "wait" =>
                        /\ k \in DOMAIN userQueues'[u]
                        /\ userQueues'[u][k] = Op(u, k)]_vars
    /\ [](\A u \in Users : \A k \in OpIndex(u) : \A j \in OpIndex(u) :
            (k < j /\ Op(u, k).cancelled /\ Started(Op(u, j))) => Settled(Op(u, k)))
    /\ \A u \in Users : \A k \in 1..MaxOps :
          CancelledWithSuccessor(u, k) ~> StartedAt(u, k + 1)

\* C8 witness: the first prompt was cancelled by /abort and has settled, the
\* prompt enqueued behind it has started
C8_Witness ==
    /\ Len(userQueues["u1"]) >= 2
    /\ Op("u1", 1).cancelled
    /\ Settled(Op("u1", 1))
    /\ Started(Op("u1", 2))

\* the texts of Texts that are one of the four tokens whatever the case
ControlTexts == {"/new", "/NEW", "/abort", "/Abort", "/sessions", "/cost"}

\* C9: handling a control command adds nothing to the user's chain, handling
\* any other text appends exactly one waiting prompt operation; a control
\* command can be handled, and its pending backend request can complete and
\* reply, in every state, whatever the user's prompts are doing.
C9_CommandsBypassQueue ==
    /\ [][\A u \in Chatting : \A t \in Texts :
            handleTextMessage(u, t) =>
                IF t \in ControlTexts
                   THEN /\ Len(userQueues'[u]) = Len(userQueues[u])
                        /\ \A k \in OpIndex(u) : userQueues'[u][k].pc = Op(u, k).pc
                        /\ reply' # NoReply \/ newH'[u].busy \/ abortH'[u].busy
                   ELSE userQueues'[u] = Append(userQueues[u], NewOp("prompt"))]_vars
    /\ [](\A u \in Chatting : \A t \in ControlTexts :
            HandlersIdle(u) => ENABLED handleTextMessage(u, t))
    /\ [](\A u \in Chatting :
            /\ newH[u].busy => ENABLED NewDone(u, TRUE)
            /\ abortH[u].busy => ENABLED AbortDone(u, TRUE))

\* C9 witness: a control command was answered while one prompt of the user
\* awaits the backend and another one waits in the chain
C9_Witness ==
    /\ reply = Reply("u1", "cleared")
    /\ Len(userQueues["u1"]) >= 2
    /\ InFlight(Op("u1", 1))
    /\ Op("u1", 2).pc = "wait"

\* C10: a prompt that succeeded on the retry after a session-expired error,
\* with no reset in between, leaves the user's totalCost at least what it was
\* when the prompt started.
C10_RecoveryKeepsCost ==
    \A u \in Users : \A k \in OpIndex(u) :
        (Op(u, k).pc = "push" /\ Op(u, k).out = "ok" /\ Op(u, k).attempt >= 2 /\ ~cleared[u].on) =>
            /\ sessions[u].present
            /\ sessions[u].totalCost >= Op(u, k).cost0

\* the step discards the entry after a session-expired error and retries
ExpiryStep(u) ==
    \E k \in OpIndex(u) :
        /\ InFlight(Op(u, k))
        /\ InFlight(userQueues'[u][k])
        /\ ~userQueues'[u][k].sess.present
        /\ IF variant = "sub"
              THEN userQueues'[u][k].attempt = Op(u, k).attempt + 1
              ELSE userQueues'[u][k].pc = "create" /\ Op(u, k).pc = "send"

\* C10 as amended: while the entry stays in the store its totalCost never
\* decreases; the entry is removed only by /new or by a session-expired
\* error, which is always followed by a retry.
C10_CostMonotoneWhilePresent ==
    [][\A u \in Users :
          /\ (sessions[u].present /\ sessions'[u].present) =>
                sessions'[u].totalCost >= sessions[u].totalCost
          /\ (sessions[u].present /\ ~sessions'[u].present) =>
                reply' = Reply(u, "cleared") \/ ExpiryStep(u)]_vars

\* C10 witness: two prompts added their costs to the entry
C10_Witness ==
    /\ sessions["u1"].present
    /\ sessions["u1"].totalCost = 2
    /\ Len(userQueues["u1"]) >= 2
    /\ Op("u1", 2).pc = "push"
    /\ Op("u1", 2).out = "ok"


\* ------------------------------------------------------ several users' prompts
(***************************************************************************)
(* SpecCost: every user sends prompts, MaxOps prompts in all, the users of  *)
(* Chatting also send /new, and the backend answers in any order.          *)
(***************************************************************************)
CostTexts(u) == IF u \in Chatting THEN {"hello", "/new"} ELSE {"hello"}

RECURSIVE TotalOps(_)
TotalOps(S) ==
    IF S = {} THEN 0
    ELSE LET u == CHOOSE x \in S : TRUE IN Len(userQueues[u]) + TotalOps(S \ {u})

ReceiveAny ==
    \E u \in Users : \E text \in CostTexts(u) :
        /\ Route(text) = "prompt" => TotalOps(Users) < MaxOps
        /\ handleTextMessage(u, text)

NextCost ==
    \/ ReceiveAny
    \/ Start
    \/ Exit
    \/ Created
    \/ Sent
    \/ Pushed
    \/ Deleted

SpecCost == Init /\ [][NextCost]_vars

\* a step taken by a handler or a callback that works for user v
StepOf(v) ==
    \/ \E text \in CostTexts(v) : handleTextMessage(v, text)
    \/ \E k \in 1..MaxOps : StartOp(v, k)
    \/ \E k \in 1..MaxOps : \E o \in ProcOutcomes : ProcExit(v, k, o)
    \/ \E k \in 1..MaxOps : \E ok \in BOOLEAN : CreateDone(v, k, ok)
    \/ \E k \in 1..MaxOps : \E o \in SendOutcomes : SendDone(v, k, o)
    \/ \E k \in 1..MaxOps : PushDone(v, k)
    \/ \E ok \in BOOLEAN : NewDone(v, ok)

\* the backend answers the k-th prompt of u with a parsed result of cost c,
\* the entry being the one the prompt was sent on
Succeeds(u, k, c) ==
    \/ /\ \E o \in ProcOutcomes : o.type = "ok" /\ o.cost = c /\ ProcExit(u, k, o)
       /\ sessions[u] = userQueues[u][k].sess
    \/ /\ \E o \in SendOutcomes : o.type = "ok" /\ o.cost = c /\ SendDone(u, k, o)
       /\ sessions[u].present
       /\ sessions[u].sessionId = userQueues[u][k].sess.sessionId

\* C11: a successful prompt, with no reset and no session expiry since it was
\* sent, leaves the user's totalCost at the former total plus the cost the
\* backend reported, from 0 for a new entry; no other step changes the total
\* of an entry that stays, and a step taken for another user never touches the
\* user's entry.  Hence after k such prompts the total is the sum of the k costs.
C11_CostAccumulates ==
    [][\A u \in Users :
          /\ \A k \in 1..MaxOps : \A c \in Costs :
                Succeeds(u, k, c) =>
                    /\ sessions'[u].present
                    /\ sessions'[u].totalCost = sessions[u].totalCost + c
          /\ (sessions'[u].present /\ sessions'[u].totalCost # sessions[u].totalCost) =>
                \E k \in 1..MaxOps : \E c \in Costs :
                    \/ \E o \in ProcOutcomes : o.type = "ok" /\ o.cost = c /\ ProcExit(u, k, o)
                    \/ \E o \in SendOutcomes : o.type = "ok" /\ o.cost = c /\ SendDone(u, k, o)
          /\ sessions'[u] # sessions[u] => \A v \in Users \ {u} : ~StepOf(v)]_vars

\* C11 witness: two prompts of a user each reported one cost unit and the total
\* is two
C11_Witness ==
    /\ sessions["u1"].present
    /\ sessions["u1"].totalCost = 2
    /\ ~cleared["u1"].on
    /\ Len(userQueues["u1"]) >= 2
    /\ Op("u1", 2).pc = "push"
    /\ Op("u1", 2).attempt = 1
    /\ Op("u1", 2).cost0 = 1


\* the backend call of the k-th prompt of u fails with an error that is not a
\* session-expired one
FailStep(u, k) ==
    \/ \E o \in ProcOutcomes : o.type = "garbage" /\ ProcExit(u, k, o)
    \/ \E o \in SendOutcomes : o.type = "fail" /\ SendDone(u, k, o)
    \/ CreateDone(u, k, FALSE)

\* C12: when the backend call of a prompt fails with an error that is not
\* recognised as session-expired, no further call is made for the prompt (the
\* count of its send attempts stays, at one unless a session-expired error
\* came before), the user's entry in the store is left as it is, and the
\* prompt goes on to push an error message.
C12_FailureNotRetried ==
    /\ [][\A u \in Users : \A k \in 1..MaxOps :
            FailStep(u, k) =>
                /\ ~InFlight(userQueues'[u][k])
                /\ userQueues'[u][k].attempt = Op(u, k).attempt
                /\ sessions'[u] = sessions[u]
                /\ userQueues'[u][k].pc = "push"
                /\ userQueues'[u][k].out = "error"]_vars
    /\ [](\A u \in Users : \A k \in OpIndex(u) :
            (variant = "sub" /\ Op(u, k).attempt >= 2) => ~Resumes(Op(u, k).sess))

\* C12 witness: the second prompt of a user failed on its only attempt, which
\* resumed the session that is still in the store
C12_Witness ==
    /\ variant = "sub"
    /\ Len(userQueues["u1"]) >= 2
    /\ Op("u1", 2).pc = "push"
    /\ Op("u1", 2).out = "error"
    /\ Op("u1", 2).attempt = 1
    /\ Resumes(Op("u1", 2).sess)
    /\ sessions["u1"] = Op("u1", 2).sess


\* ------------------------------------------------------ the claims on chunkText
\* the text has a run of more than lim characters without whitespace
HasLongToken(s, lim) ==
    \E i \in 1..Len(s) :
        /\ i + lim <= Len(s)
        /\ \A j \in i..(i + lim) : s[j] \notin Whitespace

\* C17: every chunk pushed has at most limit characters, unless the text has
\* an unbroken token longer than limit; the appended closing fence counts.
C17_ChunksWithinLimit ==
    \A i \in 1..Len(chunks) :
        Len(chunks[i]) <= limit \/ HasLongToken(msgText, limit)

\* the chunk without the characters chunkText injected
Strip(s) == SelectSeq(s, LAMBDA c : c \in Chars)

RECURSIVE Concat(_)
Concat(ss) == IF ss = << >> THEN << >> ELSE Head(ss) \o Concat(Tail(ss))

StripAll(ss) == [i \in DOMAIN ss |-> Strip(ss[i])]

\* C18: the chunks returned, without the injected closing and reopening
\* fences, concatenate to the input text.
C18_ConcatReconstructs ==
    spc = "return" => Concat(StripAll(chunks)) = msgText

IsPrefix(p, s) == Len(p) <= Len(s) /\ SubSeq(s, 1, Len(p)) = p

\* t is the pieces in order, with nothing but whitespace left out between two
\* pieces and after the last one
RECURSIVE Rebuilds(_, _)
Rebuilds(t, pieces) ==
    IF pieces = << >> THEN t = << >>
    ELSE /\ IsPrefix(Head(pieces), t)
         /\ LET rest == SubSeq(t, Len(Head(pieces)) + 1, Len(t))
            IN  \/ Rebuilds(rest, Tail(pieces))
                \/ /\ rest # << >>
                   /\ rest[1] \in Whitespace
                   /\ Rebuilds(trimStart(rest), Tail(pieces))

\* C18 as amended: the chunks (and, inside the loop, the remaining text after
\* them), without the injected fences, are the input text in order with only
\* whitespace left out, and only where a chunk was cut off.
C18_ReconstructsUpToTrimmedWhitespace ==
    /\ spc = "return" => Rebuilds(msgText, StripAll(chunks))
    /\ spc = "loop" => Rebuilds(msgText, StripAll(Append(chunks, remaining)))

\* C18 witness: a text with a fenced block was returned in several chunks, one
\* of them repaired, and whitespace was left out at a cut
C18_Witness ==
    /\ spc = "return"
    /\ Len(chunks) >= 2
    /\ \E i \in 1..Len(chunks) : Strip(chunks[i]) # chunks[i]
    /\ Len(Concat(StripAll(chunks))) < Len(msgText)

EndsWith(s, e) == Len(s) >= Len(e) /\ SubSeq(s, Len(s) - Len(e) + 1, Len(s)) = e

\* the chunk as it was cut, before a closing fence was appended
Own(c) == IF EndsWith(c, ClosingFence) THEN SubSeq(c, 1, Len(c) - Len(ClosingFence)) ELSE c

OddFences(c) == backtickCount(Own(c)) % 2 = 1

\* the chunk begins with the backticks of the reopening fence
Reopened(c) == IsPrefix(SubSeq(ReopeningFence, 1, 3), c)

\* C19: every chunk in the output whose own text holds an odd number of fence
\* markers ends with the appended closing fence, the last chunk and a sole
\* chunk included, and the chunk after it begins with the reopening fence.
C19_OddChunksRepaired ==
    \A i \in 1..Len(chunks) :
        OddFences(chunks[i]) =>
            /\ EndsWith(chunks[i], ClosingFence)
            /\ i < Len(chunks) => Reopened(chunks[i + 1])

\* the chunks pushed by the body of the loop after it cut them off a longer
\* remaining text: all of them while the loop runs, all but the last one pushed
\* once chunkText has returned
PeeledChunks ==
    IF spc = "loop" THEN 1..Len(chunks) ELSE 1..(Len(chunks) - 1)

\* C19 as amended: every chunk cut off a longer remaining text whose own text
\* holds an odd number of fence markers ends with the appended closing fence,
\* and the chunk after it begins with the reopening fence; a chunk has the
\* closing fence appended only for that reason.
C19_PeeledOddChunksRepaired ==
    /\ \A i \in PeeledChunks :
          /\ OddFences(chunks[i]) <=> EndsWith(chunks[i], ClosingFence)
          /\ (OddFences(chunks[i]) /\ i < Len(chunks)) => Reopened(chunks[i + 1])
    /\ \A i \in 1..Len(chunks) :
          (i > 1 /\ Reopened(chunks[i])) => EndsWith(chunks[i - 1], ClosingFence)
    /\ (spc = "loop" /\ chunks # << >> /\ EndsWith(chunks[Len(chunks)], ClosingFence)) =>
          IsPrefix(ReopeningFence, remaining)

\* C19 witness: the first chunk was cut inside a fenced block and closed, the
\* second and last chunk reopens the block and is pushed as it is
C19_Witness ==
    /\ spc = "return"
    /\ Len(chunks) = 2
    /\ EndsWith(chunks[1], ClosingFence)
    /\ IsPrefix(ReopeningFence, chunks[2])
    /\ OddFences(chunks[2])
    /\ ~EndsWith(chunks[2], ClosingFence)

\* the break position as the rule states it: the positions 0..lim of the
\* remaining text at which a character of cs stands
PositionsOf(rem, cs, lim) == {i \in 0..lim : i < Len(rem) /\ rem[i + 1] \in cs}

AtLeast30Percent(i, lim) == 10 * i >= 3 * lim

RuleBreak(rem, lim) ==
    LET nl == PositionsOf(rem, NewlineChars, lim)
        sp == PositionsOf(rem, SpaceChars, lim)
    IN  IF nl # {} /\ AtLeast30Percent(Max(nl), lim) THEN Max(nl)
        ELSE IF sp # {} /\ AtLeast30Percent(Max(sp), lim) THEN Max(sp)
        ELSE lim

\* the text has no newline, no space and no backtick
Plain(s) == \A i \in 1..Len(s) : s[i] = "a"

C13_ErrorsBounded ==
    (response.out # -1 /\ (response.thrown \/ response.isError)) =>
        response.out <= ErrorPrefixLen + ErrorSliceLen


\* C14: when the DELETE request of /new settles, with a 2xx answer or with a
\* rejection, the handler removes the user's entry and replies "Session
\* cleared."; /new handled without an entry does so at once; a pending
\* handler can always complete on a failed request.
C14_ResetIgnoresDestroyOutcome ==
    /\ [][\A u \in Users :
            /\ \A ok \in BOOLEAN :
                  NewDone(u, ok) =>
                      /\ ~sessions'[u].present
                      /\ ~newH'[u].busy
                      /\ reply' = Reply(u, "cleared")
            /\ handleTextMessage(u, "/new") =>
                  \/ newH'[u].busy /\ sessions[u].present /\ variant = "rem"
                  \/ ~sessions'[u].present /\ reply' = Reply(u, "cleared")]_vars
    /\ [](\A u \in Users : newH[u].busy => ENABLED NewDone(u, FALSE))

\* C14 witness: the handler replied "Session cleared." once the request to
\* destroy the user's backend session had settled, and the entry is gone
C14_Witness ==
    /\ variant = "rem"
    /\ reply = Reply("u1", "cleared")
    /\ cleared["u1"].on
    /\ cleared["u1"].stale >= 1
    /\ ~sessions["u1"].present
    /\ ~newH["u1"].busy


\* the k-th operation of u waits and nothing of u is ahead of it
Ready(u, k) ==
    IF k \in OpIndex(u)
       THEN Op(u, k).pc = "wait" /\ (k = 1 \/ Settled(Op(u, k - 1)))
       ELSE FALSE

\* a step of enqueueForUser or of an operation of user v
QueueStepOf(v) ==
    \/ EnqueueFn(v)
    \/ \E k \in 1..MaxOps : StartOp(v, k)
    \/ \E k \in 1..MaxOps : \E res \in {"fulfilled", "rejected"} : SettleFn(v, k, res)

\* C16: an operation that has none of its own user's operations ahead of it
\* can start, and does start, whatever the operations of the other users are
\* doing, running for ever included; a step taken for one user leaves the
\* chain of every other user as it is.
C16_UsersIndependent ==
    /\ [](\A u \in Users : \A k \in 1..MaxOps : Ready(u, k) => ENABLED StartOp(u, k))
    /\ \A u \in Users : \A k \in 1..MaxOps : Ready(u, k) ~> StartedAt(u, k)
    /\ [][\A u \in Users : \A v \in Users \ {u} :
            QueueStepOf(v) => userQueues'[u] = userQueues[u]]_vars

\* C16 witness: both operations of one user have started, the first one has
\* settled, while the first operation of the other user is still running
C16_Witness ==
    /\ Len(userQueues["u1"]) >= 1
    /\ Running(Op("u1", 1))
    /\ Len(userQueues["u2"]) >= 2
    /\ Settled(Op("u2", 1))
    /\ Running(Op("u2", 2))


\* the operation of u that awaits sendMessage, or awaited it
Sender(u) == {k \in OpIndex(u) : Op(u, k).pc = "push"}

SomePushFailed == \E i \in 1..Len(pushes) : pushes[i].result = "failed"

\* C15: the pushes attempted are the chunks in their order, one push each; a
\* failed push is followed by the push of the next chunk, and when sendMessage
\* has returned every chunk was attempted; the operation that awaited it is
\* fulfilled, never rejected, and the operation enqueued behind it can start.
C15_PushEveryChunk ==
    /\ [](/\ Len(pushes) <= Len(chunks)
          /\ \A i \in 1..Len(pushes) : pushes[i].chunk = chunks[i])
    /\ [](\A u \in Chatting : \A k \in Sender(u) :
            (spc = "push" /\ Len(pushes) < Len(chunks)) => ENABLED pushChunk(u, k, TRUE))
    /\ [](spc = "done" => Len(pushes) = Len(chunks))
    /\ [][\A u \in Chatting : \A k \in 1..MaxOps :
            /\ pushChunk(u, k, FALSE) => ~Settled(userQueues'[u][k])
            /\ sendMessageReturn(u, k) =>
                  /\ userQueues'[u][k].res = "fulfilled"
                  /\ userQueues'[u][k].tail = "fulfilled"]_vars
    /\ [](\A u \in Chatting : \A k \in 1..MaxOps : Ready(u, k) => ENABLED StartOp(u, k))

\* C15 witness: the push of the first of three chunks failed, the other two
\* were pushed, and the operation enqueued behind has started
C15_Witness ==
    /\ spc = "done"
    /\ Len(chunks) = 3
    /\ Len(pushes) = 3
    /\ pushes[1].result = "failed"
    /\ pushes[2].result = "sent"
    /\ pushes[3].result = "sent"
    /\ Len(userQueues["u1"]) >= 2
    /\ Op("u1", 1).res = "fulfilled"
    /\ Started(Op("u1", 2))


\* the backend answers the k-th prompt of u with a result that is not flagged
\* as an error
ResultArrives(u, k) ==
    \/ \E o \in ProcOutcomes : o.type = "ok" /\ ~o.isError /\ ProcExit(u, k, o)
    \/ \E o \in SendOutcomes : o.type = "ok" /\ ~o.isError /\ SendDone(u, k, o)

\* C21: when the backend call of a prompt returns a successful result, the
\* text the operation goes on to push is that result and not an error message,
\* whatever commands were handled while the call was in flight.
C21_SuccessIsDelivered ==
    [][\A u \in Users : \A k \in 1..MaxOps :
          ResultArrives(u, k) =>
              /\ userQueues'[u][k].pc = "push"
              /\ userQueues'[u][k].out = "ok"]_vars

\* C22: in the remote variant, the entry that the /new handler removes once
\* its DELETE request has settled holds the handle the request was made for.
C22_ResetRemovesItsOwnHandle ==
    [][\A u \in Users : \A ok \in BOOLEAN :
          (NewDone(u, ok) /\ sessions[u].present) =>
              sessions[u].sessionId = newH[u].sessionId]_vars

\* C23: every iteration of the loop of chunkText that does not end it leaves
\* the remaining text strictly shorter, a prepended reopening fence included,
\* so that chunkText returns after finitely many iterations.
C23_LoopShortensRemaining ==
    [][(spc = "loop" /\ spc' = "loop") => Len(remaining') < Len(remaining)]_vars

====
